---- MODULE Spec2Model ----
(***************************************************************************)
(* Model of package smtpssl (src/smtpclient/smtpssl/smtp.go): the          *)
(* transcript logger (ByteLogger, logProxy), the SMTP client (Client) and  *)
(* the two orchestrators SendMail and SendMailSSL.                         *)
(*                                                                         *)
(* Byte strings are TLA+ strings.  The server, the network and the         *)
(* pluggable Auth mechanism are the environment: each exchange draws the   *)
(* server's answer (or a transport failure) from a small set.  One Read    *)
(* or Write on the connection carries one whole command, response or       *)
(* body; a failed Read or Write transfers no byte.                         *)
(*                                                                         *)
(* Spec       SendMail / SendMailSSL, step by step.                        *)
(* SpecClient the same steps, with Verify and Reset called directly.       *)
(* SpecLog    one logProxy.Read and one logProxy.Write running at the same *)
(*            time, at the level of their memory accesses.                 *)
(***************************************************************************)
EXTENDS Integers, Sequences, FiniteSets, TLC

(***************************************************************************)
(* Bounds of the model.                                                    *)
(***************************************************************************)
MaxRcpt == 2
MaxAuthRounds == 1

(***************************************************************************)
(* Byte-string helpers (package strings).                                  *)
(***************************************************************************)
CRLF == "\r\n"

HasPrefix(s, p) == Len(s) >= Len(p) /\ SubSeq(s, 1, Len(p)) = p

RECURSIVE Index(_, _, _)
\* least position >= k of the one-byte separator sep in s, 0 when absent
Index(s, sep, k) ==
  IF k > Len(s) THEN 0
  ELSE IF SubSeq(s, k, k) = sep THEN k
  ELSE Index(s, sep, k + 1)

RECURSIVE Split(_, _)
\* strings.Split(s, sep) for a one-byte sep: always at least one piece
Split(s, sep) ==
  LET k == Index(s, sep, 1) IN
  IF k = 0 THEN <<s>>
  ELSE <<SubSeq(s, 1, k - 1)>> \o Split(SubSeq(s, k + 1, Len(s)), sep)

\* strings.SplitN(s, sep, 2): cut at the first separator only
SplitN2(s, sep) ==
  LET k == Index(s, sep, 1) IN
  IF k = 0 THEN <<s>>
  ELSE <<SubSeq(s, 1, k - 1), SubSeq(s, k + 1, Len(s))>>

RECURSIVE Join(_, _)
Join(ss, sep) ==
  IF Len(ss) = 0 THEN ""
  ELSE IF Len(ss) = 1 THEN ss[1]
  ELSE ss[1] \o sep \o Join(Tail(ss), sep)

Lower == "abcdefghijklmnopqrstuvwxyz"
Upper == "ABCDEFGHIJKLMNOPQRSTUVWXYZ"

RECURSIVE ToUpper(_)
\* strings.ToUpper on ASCII
ToUpper(s) ==
  IF Len(s) = 0 THEN ""
  ELSE LET ch == SubSeq(s, 1, 1)
           k == Index(Lower, ch, 1)
       IN (IF k = 0 THEN ch ELSE SubSeq(Upper, k, k))
            \o ToUpper(SubSeq(s, 2, Len(s)))

\* stringInArray
stringInArray(s, list) == \E k \in 1..Len(list) : list[k] = s

Digit(d) == SubSeq("0123456789", d + 1, d + 1)
\* the three status digits of a reply code
Code3(code) == Digit(code \div 100) \o Digit((code \div 10) % 10) \o Digit(code % 10)

(***************************************************************************)
(* Errors.                                                                 *)
(***************************************************************************)
NoErr == [kind |-> "nil", code |-> 0, msg |-> ""]
IOErr == [kind |-> "io", code |-> 0, msg |-> ""]
\* &textproto.Error{Code, Msg}
ProtoErr(code, m) == [kind |-> "proto", code |-> code, msg |-> m]
\* an error returned by the Auth mechanism (Start or Next)
MechErr(op) == [kind |-> "mech", code |-> 0, msg |-> op]
\* base64.CorruptInputError
DecodeErr == [kind |-> "base64", code |-> 0, msg |-> ""]

(***************************************************************************)
(* ByteLogger and logProxy.  L is the logProxy: Conn is the history of the *)
(* calls that reached the wrapped connection (direction and the bytes      *)
(* b[:n]), w is the ByteLogger's smtplog, kept as the sequence of appended *)
(* records; the transcript bytes are their concatenation.                  *)
(***************************************************************************)
Placeholder == "S: Raw log disabled during AUTH\n"

ByteLoggerWrite(w, p) == Append(w, p)

RECURSIVE Bytes(_)
Bytes(w) == IF Len(w) = 0 THEN "" ELSE w[1] \o Bytes(Tail(w))

\* variant of logProxy.Read: the flag is tested before it is cleared
logProxyRead_late(L, got) ==
  LET aip == IF HasPrefix(got, "235") \/ HasPrefix(got, "535")
             THEN FALSE ELSE L.authInProgress
  IN [Conn |-> Append(L.Conn, [dir |-> "R", b |-> got]),
      authInProgress |-> aip,
      w |-> IF ~L.authInProgress THEN ByteLoggerWrite(L.w, "S: " \o got)
            ELSE ByteLoggerWrite(L.w, Placeholder)]

\* logProxy.Read delivering b[:n] = got
logProxyRead(L, got) ==
  LET aip == IF HasPrefix(got, "235") \/ HasPrefix(got, "535")
             THEN FALSE ELSE L.authInProgress
  IN [Conn |-> Append(L.Conn, [dir |-> "R", b |-> got]),
      authInProgress |-> aip,
      w |-> IF ~aip THEN ByteLoggerWrite(L.w, "S: " \o got)
            ELSE ByteLoggerWrite(L.w, Placeholder)]

\* logProxy.Write of b of which n bytes were accepted by the connection
logProxyWrite(L, b, n) ==
  LET put == SubSeq(b, 1, n)
      aip == IF HasPrefix(put, "AUTH") THEN TRUE ELSE L.authInProgress
  IN [Conn |-> Append(L.Conn, [dir |-> "W", b |-> put]),
      authInProgress |-> aip,
      w |-> IF ~aip THEN ByteLoggerWrite(L.w, "C: " \o put)
            ELSE ByteLoggerWrite(L.w, Placeholder)]

(***************************************************************************)
(* The connection under the text protocol.  After Client.StartTLS the TLS  *)
(* client is layered on top of the logProxy (c.conn = tls.Client(c.conn)), *)
(* so the logProxy is handed TLS records; in SendMailSSL the logProxy      *)
(* wraps the *tls.Conn and is handed the protocol lines.                   *)
(***************************************************************************)
RECURSIVE Stars(_)
Stars(n) == IF n = 0 THEN "" ELSE "*" \o Stars(n - 1)

\* an application-data record: a record header, then ciphertext
TLSRecord(p) == "<17 03 03>" \o Stars(Len(p))
TLSClientHello == "<16 03 01>ClientHello"
TLSServerHello == "<16 03 03>ServerHello"

\* the bytes the logProxy is handed for the protocol bytes p
OnConn(wrapped, p) == IF wrapped THEN TLSRecord(p) ELSE p

(***************************************************************************)
(* net/textproto as used by the client.  An outcome o of an exchange is    *)
(* the environment's choice: the write fails, the read fails, or the       *)
(* server answers with a status code and one or more text lines.           *)
(***************************************************************************)
WErr == [kind |-> "werr", code |-> 0, lines |-> <<>>]
RErr == [kind |-> "rerr", code |-> 0, lines |-> <<>>]
Resp(code, lines) == [kind |-> "resp", code |-> code, lines |-> lines]

ReplyText(code) == IF code < 400 THEN "OK" ELSE "Error"
Replies(codes) == {WErr, RErr} \cup {Resp(cd, <<ReplyText(cd)>>) : cd \in codes}
ReadReplies(codes) == {RErr} \cup {Resp(cd, <<ReplyText(cd)>>) : cd \in codes}

RECURSIVE RespBytes(_, _)
\* the reply as sent by the server: "250-line" ... "250 last line"
RespBytes(code, lines) ==
  IF Len(lines) = 1 THEN Code3(code) \o " " \o lines[1] \o CRLF
  ELSE Code3(code) \o "-" \o lines[1] \o CRLF \o RespBytes(code, Tail(lines))

\* variant of the expectCode test: the two-digit family is not tested
ExpectOK_nofamily(expectCode, code) ==
  ~ \/ (1 <= expectCode /\ expectCode < 10 /\ code \div 100 # expectCode)
    \/ (100 <= expectCode /\ expectCode < 1000 /\ code # expectCode)

\* textproto.Reader.ReadResponse: does the code satisfy expectCode
ExpectOK(expectCode, code) ==
  ~ \/ (1 <= expectCode /\ expectCode < 10 /\ code \div 100 # expectCode)
    \/ (10 <= expectCode /\ expectCode < 100 /\ code \div 10 # expectCode)
    \/ (100 <= expectCode /\ expectCode < 1000 /\ code # expectCode)

\* Text.Cmd: format the line, write and flush it through c.conn
TextCmd(L, W, wrapped, line, o) ==
  LET b == OnConn(wrapped, line \o CRLF) IN
  IF o.kind = "werr"
  THEN [l |-> logProxyWrite(L, b, 0), wire |-> W, err |-> IOErr]
  ELSE [l |-> logProxyWrite(L, b, Len(b)),
        wire |-> Append(W, [dir |-> "C", text |-> line, code |-> 0]),
        err |-> NoErr]

\* Text.ReadResponse(expectCode)
ReadResponse(L, W, wrapped, expectCode, o) ==
  IF o.kind = "rerr"
  THEN [l |-> logProxyRead(L, ""), wire |-> W,
        code |-> 0, msg |-> "", err |-> IOErr]
  ELSE LET m == Join(o.lines, "\n") IN
       [l |-> logProxyRead(L, OnConn(wrapped, RespBytes(o.code, o.lines))),
        wire |-> Append(W, [dir |-> "S", text |-> m, code |-> o.code]),
        code |-> o.code, msg |-> m,
        err |-> IF ExpectOK(expectCode, o.code) THEN NoErr
                ELSE ProtoErr(o.code, m)]

\* Client.cmd: send a command and read its response
cmd(L, W, wrapped, expectCode, line, o) ==
  LET s == TextCmd(L, W, wrapped, line, o) IN
  IF s.err # NoErr
  THEN [l |-> s.l, wire |-> s.wire, code |-> 0, msg |-> "", err |-> s.err]
  ELSE ReadResponse(s.l, s.wire, wrapped, expectCode, o)

(***************************************************************************)
(* The extension map built by Client.ehlo.                                 *)
(***************************************************************************)
EmptyMap == [k \in {} |-> ""]
NilExt == [nil |-> TRUE, m |-> EmptyMap]
Put(m, k, v) == [x \in (DOMAIN m) \cup {k} |-> IF x = k THEN v ELSE m[x]]

RECURSIVE ExtFold(_, _)
ExtFold(m, extList) ==
  IF Len(extList) = 0 THEN m
  ELSE LET args == SplitN2(extList[1], " ") IN
       ExtFold(Put(m, args[1], IF Len(args) > 1 THEN args[2] ELSE ""),
               Tail(extList))

\* the map ehlo builds from the reply text
ParseExt(m) ==
  LET extList == Split(m, "\n") IN
  IF Len(extList) > 1 THEN ExtFold(EmptyMap, Tail(extList)) ELSE EmptyMap

\* Client.Extension
Extension(e, name) ==
  IF e.nil THEN [ok |-> FALSE, param |-> ""]
  ELSE LET key == ToUpper(name) IN
       IF key \in DOMAIN e.m THEN [ok |-> TRUE, param |-> e.m[key]]
       ELSE [ok |-> FALSE, param |-> ""]

(***************************************************************************)
(* encoding/base64 (StdEncoding) on the payloads that occur.               *)
(***************************************************************************)
Base64Pairs == {<<"", "">>, <<"up", "dXA=">>, <<"ch", "Y2g=">>}
Encode(p) == (CHOOSE pr \in Base64Pairs : pr[1] = p)[2]
DecodeString(s) ==
  IF \E pr \in Base64Pairs : pr[2] = s
  THEN [msg |-> (CHOOSE pr \in Base64Pairs : pr[2] = s)[1], err |-> NoErr]
  ELSE [msg |-> "", err |-> DecodeErr]

(***************************************************************************)
(* Inputs and the environment's choices.                                   *)
(***************************************************************************)
NilAuth == "nil"
Mechs == {"plainAuth", "cramAuth"}
\* the mechanism name a mechanism's Start reports
MechName(m) == IF m = "cramAuth" THEN "CRAM-MD5" ELSE "PLAIN"
Payloads == {"up"}
From == "a@b"
Addrs == {"b@c"}
Bodies == {"Hi", "AUTH me"}
RemoteAddr == "10.0.0.1:25"

\* the (aplain, acram) arguments a caller passes
MechPairs == {<<"plainAuth", "cramAuth">>, <<"cramAuth", "plainAuth">>,
              <<"plainAuth", NilAuth>>}

RcptLists == UNION {[1..n -> Addrs] : n \in 0..MaxRcpt}

EhloLines ==
  { <<"mx">>,
    <<"mx", "AUTH CRAM-MD5 LOGIN">>,
    <<"mx", "AUTH PLAIN">>,
    <<"mx", "STARTTLS">>,
    <<"mx", "8BITMIME", "STARTTLS", "AUTH LOGIN CRAM-MD5">>,
    <<"mx", "auth PLAIN", "8BITMIME">> }

EhloReplies == {WErr, RErr, Resp(502, <<"Error">>)}
                 \cup {Resp(250, ls) : ls \in EhloLines}
AuthReplies == {WErr, RErr, Resp(334, <<"Y2g=">>), Resp(334, <<"!!">>),
                Resp(235, <<"OK">>), Resp(535, <<"Error">>),
                Resp(504, <<"Error">>)}

\* what Text.Close returns
CloseResults == {NoErr, IOErr}

StartOutcomes(m) ==
  {[err |-> TRUE, mech |-> "", resp |-> ""]}
    \cup {[err |-> FALSE, mech |-> MechName(m), resp |-> r] : r \in Payloads}
NextOutcomes ==
  {[kind |-> "err", resp |-> ""], [kind |-> "nil", resp |-> ""]}
    \cup {[kind |-> "resp", resp |-> r] : r \in Payloads}

(***************************************************************************)
(* State.                                                                  *)
(***************************************************************************)
VARIABLES
  flow,        \* "SendMail" or "SendMailSSL"
  aplain,      \* first mechanism argument
  acram,       \* second mechanism argument
  to,          \* recipients
  msg,         \* message body
               \* (each argument is drawn by the step that first reads it)
  pc,          \* position in the orchestrator
  ext,         \* Client.ext
  auth,        \* Client.auth
  tls,         \* Client.tls
  tlsWrapped,  \* c.conn is a tls.Client layered over the logProxy
  closed,      \* the transport has been closed
  l,           \* the logProxy with its ByteLogger
  wire,        \* what the server received and sent, in order: commands
               \* ("C"), the message body ("D") and responses ("S")
  a,           \* the mechanism the orchestrator selected
  code,        \* Auth: code of the last response
  msg64,       \* Auth: text of the last response
  err,         \* Auth: err of the last c.cmd
  rounds,      \* Auth: continuation lines sent
  authRet,     \* what Client.Auth returned
  calls,       \* calls made to the mechanism, in order
  i,           \* index of the next recipient
  closeErr,    \* what dataCloser.Close returned
  ret,         \* what the orchestrator returned
  heap,        \* concurrent use: the backing arrays of smtplog, by number
  smtplog,     \* concurrent use: the slice header <<array, len, cap>>
  g            \* concurrent use: the goroutine inside logProxy.Read ("R")
               \* and the one inside logProxy.Write ("W")

inputs == <<flow, aplain, acram, to, msg>>
session == <<ext, auth, tls, tlsWrapped>>
authLocals == <<a, code, msg64, err, rounds, authRet, calls>>
logRace == <<heap, smtplog, g>>
vars == <<inputs, pc, session, closed, l, wire, authLocals, i, closeErr, ret,
          logRace>>

\* a nil slice
NilSlice == <<0, 0, 0>>
Goroutines == {"R", "W"}
\* a goroutine that has not entered the logProxy
Idle == [pc |-> "idle", b |-> "", rec |-> "", hdr |-> NilSlice, new |-> NilSlice,
         k |-> 0]

NotReturned == [returned |-> FALSE, nil |-> TRUE, log |-> <<>>, err |-> NoErr]
\* variant of "return nil, e": the transcript is handed back with the error
ReturnNil_withlog(e) ==
  [returned |-> TRUE, nil |-> FALSE, log |-> l.w, err |-> e]

\* return nil, e
ReturnNil(e) == [returned |-> TRUE, nil |-> TRUE, log |-> <<>>, err |-> e]
\* return sbytelog.smtplog, e
ReturnLog(w, e) == [returned |-> TRUE, nil |-> FALSE, log |-> w, err |-> e]
NoAuthRet == [returned |-> FALSE, err |-> NoErr]

Init ==
  /\ flow \in {"SendMail", "SendMailSSL"}
  /\ aplain = NilAuth
  /\ acram = NilAuth
  /\ to = <<>>
  /\ msg = ""
  /\ pc = "Dial"
  /\ ext = NilExt
  /\ auth = <<>>
  /\ tls = FALSE
  /\ tlsWrapped = FALSE
  /\ closed = FALSE
  /\ l = [Conn |-> <<>>, authInProgress |-> FALSE, w |-> <<>>]
  /\ wire = <<>>
  /\ a = NilAuth
  /\ code = 0
  /\ msg64 = ""
  /\ err = NoErr
  /\ rounds = 0
  /\ authRet = NoAuthRet
  /\ calls = <<>>
  /\ i = 1
  /\ closeErr = NoErr
  /\ ret = NotReturned
  /\ heap = <<>>
  /\ smtplog = NilSlice
  /\ g = [x \in Goroutines |-> Idle]

(***************************************************************************)
(* Client methods as operators on the state they touch.                    *)
(***************************************************************************)
TLSAlert == "<15 03 03>close_notify"

\* Text.Close: a TLS client layered over the logProxy sends close_notify
\* through it before the connection is closed
TextClose(L, wrapped) ==
  IF wrapped THEN logProxyWrite(L, TLSAlert, Len(TLSAlert)) ELSE L

\* variant of Client.Quit: the transport is closed also when QUIT failed
Quit_always(L, W, wrapped, cl, o, ce) ==
  LET r == cmd(L, W, wrapped, 221, "QUIT", o) IN
  IF r.err # NoErr
  THEN [l |-> TextClose(r.l, wrapped), wire |-> r.wire, closed |-> TRUE,
        err |-> r.err]
  ELSE [l |-> TextClose(r.l, wrapped), wire |-> r.wire, closed |-> TRUE,
        err |-> ce]

\* Client.Quit; ce is what Text.Close returns
Quit(L, W, wrapped, cl, o, ce) ==
  LET r == cmd(L, W, wrapped, 221, "QUIT", o) IN
  IF r.err # NoErr
  THEN [l |-> r.l, wire |-> r.wire, closed |-> cl, err |-> r.err]
  ELSE [l |-> TextClose(r.l, wrapped), wire |-> r.wire, closed |-> TRUE,
        err |-> ce]

\* Client.ehlo
ehlo(L, W, wrapped, e, au, o) ==
  LET r == cmd(L, W, wrapped, 250, "EHLO localhost", o) IN
  IF r.err # NoErr
  THEN [l |-> r.l, wire |-> r.wire, ext |-> e, auth |-> au, err |-> r.err]
  ELSE LET m == ParseExt(r.msg) IN
       [l |-> r.l, wire |-> r.wire,
        ext |-> [nil |-> FALSE, m |-> m],
        auth |-> IF "AUTH" \in DOMAIN m THEN Split(m["AUTH"], " ") ELSE au,
        err |-> NoErr]

\* variant of Client.Mail: the parameter is added without the test
MailCmd_always(e, from) == "MAIL FROM:<" \o from \o ">" \o " BODY=8BITMIME"

\* the MAIL command line built by Client.Mail
MailCmd(e, from) ==
  "MAIL FROM:<" \o from \o ">"
     \o (IF ~e.nil /\ "8BITMIME" \in DOMAIN e.m THEN " BODY=8BITMIME" ELSE "")

\* variant of the selection: the two arguments taken the other way round
SelectAuth_swapped(ap, ac, au) ==
  IF stringInArray("CRAM-MD5", au) THEN ap ELSE ac

\* the mechanism SendMail / SendMailSSL pick
SelectAuth(ap, ac, au) == IF stringInArray("CRAM-MD5", au) THEN ac ELSE ap

\* variant of the test: the extension map is not consulted
AuthAdvertised_always(f, e) == TRUE

\* the orchestrators' test that the server advertised AUTH
AuthAdvertised(f, e) ==
  IF f = "SendMail" THEN ~e.nil /\ "AUTH" \in DOMAIN e.m
  ELSE Extension(e, "AUTH").ok

\* the body as the DotWriter sends it on Close
DotBody(m) == m \o CRLF \o "." \o CRLF

(***************************************************************************)
(* Actions: the steps of SendMail / SendMailSSL, one per exchange.         *)
(***************************************************************************)
\* net.Dial / tls.Dial fails
DialFail ==
  /\ pc = "Dial"
  /\ pc' = "Done"
  /\ ret' = ReturnNil(IOErr)
  /\ UNCHANGED <<logRace, inputs, session, closed, l, wire, authLocals, i, closeErr>>

\* the dial succeeds; NewClient creates the logger and wraps the connection
DialOK ==
  /\ pc = "Dial"
  /\ pc' = "Open"
  /\ tls' = (flow = "SendMailSSL")
  /\ l' = [l EXCEPT !.w = ByteLoggerWrite(l.w, "Connected to: " \o RemoteAddr \o "\n")]
  /\ UNCHANGED <<logRace, inputs, ext, auth, tlsWrapped, closed, wire, authLocals, i,
                 closeErr, ret>>

\* NewClient: read the opening status
Open ==
  /\ pc = "Open"
  /\ \E o \in ReadReplies({220, 554}) :
       LET r == ReadResponse(l, wire, tlsWrapped, 220, o) IN
       /\ l' = r.l
       /\ wire' = r.wire
       /\ IF r.err # NoErr
          THEN /\ closed' = TRUE
               /\ ret' = ReturnNil(r.err)
               /\ pc' = "Done"
          ELSE /\ pc' = "Ehlo"
               /\ UNCHANGED <<closed, ret>>
  /\ UNCHANGED <<logRace, inputs, session, authLocals, i, closeErr>>

\* NewClient: c.ehlo()
Ehlo ==
  /\ pc = "Ehlo"
  /\ \E o \in EhloReplies :
       LET r == ehlo(l, wire, tlsWrapped, ext, auth, o) IN
       /\ l' = r.l
       /\ wire' = r.wire
       /\ ext' = r.ext
       /\ auth' = r.auth
       /\ pc' = IF r.err # NoErr THEN "Helo"
                ELSE IF flow = "SendMail" THEN "StartTLS" ELSE "Auth"
  /\ UNCHANGED <<logRace, inputs, tls, tlsWrapped, closed, authLocals, i, closeErr, ret>>

\* NewClient: c.helo() after a failed ehlo
Helo ==
  /\ pc = "Helo"
  /\ \E o \in Replies({250, 554}) :
       LET r == cmd(l, wire, tlsWrapped, 250, "HELO localhost", o) IN
       /\ l' = r.l
       /\ wire' = r.wire
       /\ ext' = NilExt
       /\ IF r.err # NoErr
          THEN /\ ret' = ReturnNil(r.err)
               /\ pc' = "Done"
          ELSE /\ pc' = IF flow = "SendMail" THEN "StartTLS" ELSE "Auth"
               /\ UNCHANGED ret
  /\ UNCHANGED <<logRace, inputs, auth, tls, tlsWrapped, closed, authLocals, i, closeErr>>

\* SendMail: the server did not advertise STARTTLS
NoStartTLS ==
  /\ pc = "StartTLS"
  /\ ~Extension(ext, "STARTTLS").ok
  /\ pc' = "Auth"
  /\ UNCHANGED <<logRace, inputs, session, closed, l, wire, authLocals, i, closeErr, ret>>

\* Client.StartTLS up to the layering of the TLS client
StartTLS ==
  /\ pc = "StartTLS"
  /\ Extension(ext, "STARTTLS").ok
  /\ \E o \in Replies({220, 454}) :
       LET r == cmd(l, wire, tlsWrapped, 220, "STARTTLS", o) IN
       /\ l' = r.l
       /\ wire' = r.wire
       /\ IF r.err # NoErr
          THEN /\ ret' = ReturnNil(r.err)
               /\ pc' = "Done"
               /\ UNCHANGED <<tls, tlsWrapped>>
          ELSE /\ tlsWrapped' = TRUE
               /\ tls' = TRUE
               /\ pc' = "EhloTLS"
               /\ UNCHANGED ret
  /\ UNCHANGED <<logRace, inputs, ext, auth, closed, authLocals, i, closeErr>>

\* Client.StartTLS: the TLS handshake, made on the first write, fails
HandshakeFail ==
  /\ pc = "EhloTLS"
  /\ l' = logProxyRead(logProxyWrite(l, TLSClientHello, Len(TLSClientHello)), "")
  /\ ret' = ReturnNil(IOErr)
  /\ pc' = "Done"
  /\ UNCHANGED <<logRace, inputs, session, closed, wire, authLocals, i, closeErr>>

\* Client.StartTLS: return c.ehlo()
EhloTLS ==
  /\ pc = "EhloTLS"
  /\ \E o \in EhloReplies :
       LET hs == logProxyRead(logProxyWrite(l, TLSClientHello, Len(TLSClientHello)),
                              TLSServerHello)
           r == ehlo(hs, wire, tlsWrapped, ext, auth, o)
       IN /\ l' = r.l
          /\ wire' = r.wire
          /\ ext' = r.ext
          /\ auth' = r.auth
          /\ IF r.err # NoErr
             THEN /\ ret' = ReturnNil(r.err)
                  /\ pc' = "Done"
             ELSE /\ pc' = "Auth"
                  /\ UNCHANGED ret
  /\ UNCHANGED <<logRace, inputs, tls, tlsWrapped, closed, authLocals, i, closeErr>>

\* Client.Auth: the switch on the response code; what it leaves in msg, err
AuthSwitch(cd, m64) ==
  CASE cd = 334 -> DecodeString(m64)
    [] cd = 235 -> [msg |-> m64, err |-> NoErr]
    [] OTHER -> [msg |-> "", err |-> ProtoErr(cd, m64)]

\* the orchestrator's auth step is skipped
AuthSkip ==
  /\ pc = "Auth"
  /\ \E pr \in MechPairs :
       LET sel == SelectAuth(pr[1], pr[2], auth) IN
       /\ aplain' = pr[1] /\ acram' = pr[2]
       /\ sel = NilAuth \/ ~AuthAdvertised(flow, ext)
       /\ a' = sel
  /\ pc' = "Mail"
  /\ UNCHANGED <<logRace, flow, to, msg, session, closed, l, wire, code, msg64, err,
                 rounds, authRet, calls, i, closeErr, ret>>

\* Client.Auth: a.Start fails
AuthStartFail ==
  /\ pc = "Auth"
  /\ \E pr \in MechPairs :
       LET sel == SelectAuth(pr[1], pr[2], auth) IN
       /\ aplain' = pr[1] /\ acram' = pr[2]
       /\ sel # NilAuth /\ AuthAdvertised(flow, ext)
       /\ a' = sel
       /\ calls' = Append(calls, [m |-> sel, op |-> "Start"])
  /\ \E o \in Replies({221, 500}), ce \in CloseResults :
       LET q == Quit(l, wire, tlsWrapped, closed, o, ce) IN
       /\ l' = q.l
       /\ wire' = q.wire
       /\ closed' = q.closed
  /\ authRet' = [returned |-> TRUE, err |-> MechErr("Start")]
  /\ ret' = ReturnNil(MechErr("Start"))
  /\ pc' = "Done"
  /\ UNCHANGED <<logRace, flow, to, msg, session, code, msg64, err, rounds, i, closeErr>>

\* Client.Auth: a.Start succeeds and the AUTH command is sent
AuthStart ==
  /\ pc = "Auth"
  /\ \E pr \in MechPairs :
       LET sel == SelectAuth(pr[1], pr[2], auth) IN
       /\ aplain' = pr[1] /\ acram' = pr[2]
       /\ sel # NilAuth /\ AuthAdvertised(flow, ext)
       /\ a' = sel
       /\ calls' = Append(calls, [m |-> sel, op |-> "Start"])
       /\ \E st \in StartOutcomes(sel), o \in AuthReplies :
            /\ ~st.err
            /\ LET r == cmd(l, wire, tlsWrapped, 0,
                            "AUTH " \o st.mech \o " " \o Encode(st.resp), o) IN
               /\ l' = r.l
               /\ wire' = r.wire
               /\ code' = r.code
               /\ msg64' = r.msg
               /\ err' = r.err
  /\ pc' = "AuthLoop"
  /\ UNCHANGED <<logRace, flow, to, msg, session, closed, rounds, authRet, i, closeErr,
                 ret>>

\* Client.Auth: the last c.cmd failed, the loop is not entered again
AuthCmdFailed ==
  /\ pc = "AuthLoop"
  /\ err # NoErr
  /\ authRet' = [returned |-> TRUE, err |-> err]
  /\ ret' = ReturnNil(err)
  /\ pc' = "Done"
  /\ UNCHANGED <<logRace, inputs, session, closed, l, wire, a, code, msg64, err, rounds,
                 calls, i, closeErr>>

\* the call a.Next(msg, code == 334) as recorded in calls
NextCall(m, cd, m64) ==
  [m |-> m, op |-> "Next", fromServer |-> AuthSwitch(cd, m64).msg,
   more |-> (cd = 334)]

\* Client.Auth: a.Next fails: abort with "*", Quit, return Next's error
\* (the assignment "resp, err = a.Next(...)" replaces the switch's err)
AuthNextErr ==
  /\ pc = "AuthLoop"
  /\ err = NoErr
  /\ calls' = Append(calls, NextCall(a, code, msg64))
  /\ \E o1 \in Replies({501, 250}), o2 \in Replies({221, 500}),
        ce \in CloseResults :
       LET r == cmd(l, wire, tlsWrapped, 501, "*", o1)
           q == Quit(r.l, r.wire, tlsWrapped, closed, o2, ce)
       IN /\ l' = q.l
          /\ wire' = q.wire
          /\ closed' = q.closed
  /\ err' = MechErr("Next")
  /\ authRet' = [returned |-> TRUE, err |-> MechErr("Next")]
  /\ ret' = ReturnNil(MechErr("Next"))
  /\ pc' = "Done"
  /\ UNCHANGED <<logRace, inputs, session, a, code, msg64, rounds, i, closeErr>>

\* Client.Auth: a.Next returns no payload and no error: the loop ends and
\* Auth returns Next's nil error
AuthNextDone ==
  /\ pc = "AuthLoop"
  /\ err = NoErr
  /\ calls' = Append(calls, NextCall(a, code, msg64))
  /\ authRet' = [returned |-> TRUE, err |-> NoErr]
  /\ pc' = "Mail"
  /\ UNCHANGED <<logRace, inputs, session, closed, l, wire, a, code, msg64, err, rounds,
                 i, closeErr, ret>>

\* Client.Auth: a.Next returns a payload, sent as a continuation line.
\* By the contract of the Auth interface a mechanism returns a payload only
\* when more is true, that is when the server answered 334.
AuthNextResp ==
  /\ pc = "AuthLoop"
  /\ err = NoErr
  /\ code = 334
  /\ rounds < MaxAuthRounds
  /\ calls' = Append(calls, NextCall(a, code, msg64))
  /\ \E resp \in Payloads, o \in AuthReplies :
       LET r == cmd(l, wire, tlsWrapped, 0, Encode(resp), o) IN
       /\ l' = r.l
       /\ wire' = r.wire
       /\ code' = r.code
       /\ msg64' = r.msg
       /\ err' = r.err
  /\ rounds' = rounds + 1
  /\ UNCHANGED <<logRace, inputs, session, closed, a, authRet, i, closeErr, ret, pc>>

(***************************************************************************)
(* The mail transaction.                                                   *)
(***************************************************************************)
\* Client.Mail
Mail ==
  /\ pc = "Mail"
  /\ \E o \in Replies({250, 550}), t \in RcptLists :
       LET r == cmd(l, wire, tlsWrapped, 250, MailCmd(ext, From), o) IN
       /\ l' = r.l
       /\ wire' = r.wire
       /\ IF r.err # NoErr
          THEN /\ ret' = ReturnNil(r.err)
               /\ pc' = "Done"
               /\ UNCHANGED to
          ELSE /\ to' = t
               /\ pc' = IF Len(t) = 0 THEN "Data" ELSE "Rcpt"
               /\ UNCHANGED ret
  /\ i' = 1
  /\ UNCHANGED <<logRace, flow, aplain, acram, msg, session, closed, authLocals,
                 closeErr>>

\* variant of Client.Rcpt: any status of the family 2xx is accepted
ClientRcpt_2xx(L, W, wrapped, addr, o) ==
  cmd(L, W, wrapped, 2, "RCPT TO:<" \o addr \o ">", o)

\* Client.Rcpt
ClientRcpt(L, W, wrapped, addr, o) ==
  cmd(L, W, wrapped, 25, "RCPT TO:<" \o addr \o ">", o)

\* the orchestrator's call of Client.Rcpt for to[i]
Rcpt ==
  /\ pc = "Rcpt"
  /\ i <= Len(to)
  /\ \E o \in Replies({251, 200, 550}) :
       LET r == ClientRcpt(l, wire, tlsWrapped, to[i], o) IN
       /\ l' = r.l
       /\ wire' = r.wire
       /\ IF r.err # NoErr
          THEN /\ ret' = ReturnNil(r.err)
               /\ pc' = "Done"
               /\ UNCHANGED i
          ELSE /\ i' = i + 1
               /\ pc' = IF i + 1 > Len(to) THEN "Data" ELSE "Rcpt"
               /\ UNCHANGED ret
  /\ UNCHANGED <<logRace, inputs, session, closed, authLocals, closeErr>>

\* Client.Data
Data ==
  /\ pc = "Data"
  /\ \E o \in Replies({354, 554}) :
       LET r == cmd(l, wire, tlsWrapped, 354, "DATA", o) IN
       /\ l' = r.l
       /\ wire' = r.wire
       /\ IF r.err # NoErr
          THEN /\ ret' = ReturnNil(r.err)
               /\ pc' = "Done"
          ELSE /\ pc' = "Write"
               /\ UNCHANGED ret
  /\ UNCHANGED <<logRace, inputs, session, closed, authLocals, i, closeErr>>

\* w.Write(msg): the body is buffered by the DotWriter
BodyWrite ==
  /\ pc = "Write"
  /\ msg' \in Bodies
  /\ pc' = "Close"
  /\ UNCHANGED <<logRace, flow, aplain, acram, to, session, closed, l, wire, authLocals,
                 i, closeErr, ret>>

\* w.Write(msg) fails: the buffer had to be flushed and the write of it
\* reached the connection with no byte accepted
BodyWriteFail ==
  /\ pc = "Write"
  /\ \E m \in Bodies :
       l' = logProxyWrite(l, OnConn(tlsWrapped, m), 0)
  /\ ret' = ReturnNil(IOErr)
  /\ pc' = "Done"
  /\ UNCHANGED <<logRace, inputs, session, closed, wire, authLocals, i, closeErr>>

\* variant of dataCloser.Close: the final status is read but not required
dataCloserClose_anystatus(L, W, wrapped, m, o) ==
  LET b == OnConn(wrapped, DotBody(m)) IN
  IF o.kind = "werr"
  THEN ReadResponse(logProxyWrite(L, b, 0), W, wrapped, 250, RErr)
  ELSE ReadResponse(logProxyWrite(L, b, Len(b)),
                    Append(W, [dir |-> "D", text |-> DotBody(m), code |-> 0]),
                    wrapped, 0, o)

\* dataCloser.Close: flush the body and its terminator (an error of the
\* flush is dropped), then read the final status
dataCloserClose(L, W, wrapped, m, o) ==
  LET b == OnConn(wrapped, DotBody(m)) IN
  IF o.kind = "werr"
  THEN ReadResponse(logProxyWrite(L, b, 0), W, wrapped, 250, RErr)
  ELSE ReadResponse(logProxyWrite(L, b, Len(b)),
                    Append(W, [dir |-> "D", text |-> DotBody(m), code |-> 0]),
                    wrapped, 250, o)

\* w.Close()
Close ==
  /\ pc = "Close"
  /\ \E o \in Replies({250, 554}) :
       LET r == dataCloserClose(l, wire, tlsWrapped, msg, o) IN
       /\ l' = r.l
       /\ wire' = r.wire
       /\ closeErr' = r.err
       /\ IF r.err # NoErr
          THEN /\ ret' = ReturnNil(r.err)
               /\ pc' = "Done"
          ELSE /\ pc' = "Quit"
               /\ UNCHANGED ret
  /\ UNCHANGED <<logRace, inputs, session, closed, authLocals, i>>

\* return sbytelog.smtplog, c.Quit(): Go does not order the read of the
\* slice against the call, so the slice returned is the transcript before
\* or after Quit
FinalQuit ==
  /\ pc = "Quit"
  /\ \E o \in Replies({221, 500}), ce \in CloseResults, early \in BOOLEAN :
       LET q == Quit(l, wire, tlsWrapped, closed, o, ce) IN
       /\ l' = q.l
       /\ wire' = q.wire
       /\ closed' = q.closed
       /\ ret' = ReturnLog(IF early THEN l.w ELSE q.l.w, q.err)
  /\ pc' = "Done"
  /\ UNCHANGED <<logRace, inputs, session, authLocals, i, closeErr>>

Next ==
  \/ DialFail \/ DialOK \/ Open \/ Ehlo \/ Helo
  \/ NoStartTLS \/ StartTLS \/ HandshakeFail \/ EhloTLS
  \/ AuthSkip \/ AuthStartFail \/ AuthStart \/ AuthCmdFailed
  \/ AuthNextErr \/ AuthNextDone \/ AuthNextResp
  \/ Mail \/ Rcpt \/ Data \/ BodyWrite \/ BodyWriteFail \/ Close \/ FinalQuit

Spec == Init /\ [][Next]_vars

(***************************************************************************)
(* The Client driven by a caller of its methods: the same steps, and at    *)
(* the point where the transaction would start the caller may call Verify  *)
(* instead, and after MAIL was accepted it may call Reset instead of going *)
(* on; the caller then stops.                                              *)
(***************************************************************************)
\* Client.Verify
Verify ==
  /\ pc = "Mail"
  /\ \E o \in Replies({250, 550}), addr \in Addrs :
       LET r == cmd(l, wire, tlsWrapped, 250, "VRFY " \o addr, o) IN
       /\ l' = r.l
       /\ wire' = r.wire
  /\ pc' = "Done"
  /\ UNCHANGED <<logRace, inputs, session, closed, authLocals, i, closeErr, ret>>

\* variant of Client.Reset: the extension map is dropped with the
\* transaction
Reset_dropsExt ==
  /\ pc = "Rcpt"
  /\ \E o \in Replies({250, 550}) :
       LET r == cmd(l, wire, tlsWrapped, 250, "RSET", o) IN
       /\ l' = r.l
       /\ wire' = r.wire
  /\ ext' = NilExt
  /\ pc' = "Done"
  /\ UNCHANGED <<logRace, inputs, auth, tls, tlsWrapped, closed, authLocals, i,
                 closeErr, ret>>

\* Client.Reset
Reset ==
  /\ pc = "Rcpt"
  /\ \E o \in Replies({250, 550}) :
       LET r == cmd(l, wire, tlsWrapped, 250, "RSET", o) IN
       /\ l' = r.l
       /\ wire' = r.wire
  /\ pc' = "Done"
  /\ UNCHANGED <<logRace, inputs, session, closed, authLocals, i, closeErr, ret>>

NextClient == Next \/ Verify \/ Reset

SpecClient == Init /\ [][NextClient]_vars

(***************************************************************************)
(* The logger under one reader and one writer.  Neither logProxy nor       *)
(* ByteLogger holds a lock, so a goroutine inside logProxy.Read and one    *)
(* inside logProxy.Write run their memory accesses in any interleaving:    *)
(* the flag is one byte, the slice header w.smtplog is three words, and    *)
(* append copies the record byte by byte into the backing array.  Here     *)
(* the transcript is the slice itself: heap holds the backing arrays and   *)
(* smtplog the header <<array, len, cap>>.                                 *)
(***************************************************************************)
\* the transcript when the two calls start
Earlier == "Connected to: " \o RemoteAddr \o "\n"
\* the room left in the backing array when the two calls start
Spares == {0, 64}
\* b[:n] of the Read and of the Write
ReadInputs == {"250 OK\r\n", "235 OK\r\n"}
WriteInputs == {"QUIT\r\n", "AUTH x\r\n"}
\* a byte of an array that was never written
Zero == "0"

RECURSIVE Zeros(_)
Zeros(n) == IF n <= 0 THEN "" ELSE Zero \o Zeros(n - 1)

\* the first n bytes of the array s
ArrayRead(s, n) ==
  IF n <= Len(s) THEN SubSeq(s, 1, n) ELSE s \o Zeros(n - Len(s))

\* the array s with the byte ch stored at position pos (append trusts the
\* header it loaded and does not test pos against the array)
ArrayStore(s, pos, ch) ==
  LET t == ArrayRead(s, IF pos > Len(s) THEN pos ELSE Len(s)) IN
  SubSeq(t, 1, pos - 1) \o ch \o SubSeq(t, pos + 1, Len(t))

\* the slice w.smtplog as bytes
Transcript == ArrayRead(heap[smtplog[1]], smtplog[2])

\* the direction tag of the goroutine's record
Tag(x) == IF x = "R" THEN "S: " ELSE "C: "

seqVars == <<inputs, pc, session, closed, wire, authLocals, i, closeErr, ret>>

InitLog ==
  /\ flow = "SendMail"
  /\ aplain = NilAuth
  /\ acram = NilAuth
  /\ to = <<>>
  /\ msg = ""
  /\ pc = "Client"
  /\ ext = NilExt
  /\ auth = <<>>
  /\ tls = FALSE
  /\ tlsWrapped = FALSE
  /\ closed = FALSE
  /\ \E f \in BOOLEAN : l = [Conn |-> <<>>, authInProgress |-> f, w |-> <<>>]
  /\ wire = <<>>
  /\ a = NilAuth
  /\ code = 0
  /\ msg64 = ""
  /\ err = NoErr
  /\ rounds = 0
  /\ authRet = NoAuthRet
  /\ calls = <<>>
  /\ i = 1
  /\ closeErr = NoErr
  /\ ret = NotReturned
  /\ heap = <<Earlier>>
  /\ \E sp \in Spares : smtplog = <<1, Len(Earlier), Len(Earlier) + sp>>
  /\ g = [x \in Goroutines |-> [Idle EXCEPT !.pc = "call"]]

\* n, err = l.Conn.Read(b) / l.Conn.Write(b)
ConnCall(x) ==
  /\ g[x].pc = "call"
  /\ \E bytes \in IF x = "R" THEN ReadInputs ELSE WriteInputs :
       /\ l' = [l EXCEPT !.Conn = Append(@, [dir |-> x, b |-> bytes])]
       /\ g' = [g EXCEPT ![x].b = bytes, ![x].pc = "flag"]
  /\ UNCHANGED <<seqVars, heap, smtplog>>

\* the prefix test and the assignment to l.authInProgress
SetFlag(x) ==
  /\ g[x].pc = "flag"
  /\ l' = [l EXCEPT !.authInProgress =
             IF x = "R"
             THEN (IF HasPrefix(g[x].b, "235") \/ HasPrefix(g[x].b, "535")
                   THEN FALSE ELSE @)
             ELSE (IF HasPrefix(g[x].b, "AUTH") THEN TRUE ELSE @)]
  /\ g' = [g EXCEPT ![x].pc = "test"]
  /\ UNCHANGED <<seqVars, heap, smtplog>>

\* if !l.authInProgress: the record handed to l.w.Write
TestFlag(x) ==
  /\ g[x].pc = "test"
  /\ g' = [g EXCEPT ![x].rec = IF ~l.authInProgress THEN Tag(x) \o g[x].b
                               ELSE Placeholder,
                    ![x].k = 0,
                    ![x].pc = "load"]
  /\ UNCHANGED <<seqVars, l, heap, smtplog>>

\* ByteLogger.Write: load one word of the header w.smtplog
LoadWord(x) ==
  /\ g[x].pc = "load"
  /\ g' = [g EXCEPT ![x].hdr = [@ EXCEPT ![g[x].k + 1] = smtplog[g[x].k + 1]],
                    ![x].k = IF g[x].k = 2 THEN 0 ELSE g[x].k + 1,
                    ![x].pc = IF g[x].k = 2 THEN "grow" ELSE "load"]
  /\ UNCHANGED <<seqVars, l, heap, smtplog>>

\* append: use the array in place when the record fits, otherwise allocate
\* a larger one and copy the old bytes into it
Grow(x) ==
  /\ g[x].pc = "grow"
  /\ LET h == g[x].hdr
         need == h[2] + Len(g[x].rec)
     IN IF need <= h[3]
        THEN /\ g' = [g EXCEPT ![x].new = <<h[1], need, h[3]>>,
                               ![x].pc = "copy"]
             /\ UNCHANGED heap
        ELSE /\ heap' = Append(heap, ArrayRead(heap[h[1]], h[2]))
             /\ g' = [g EXCEPT ![x].new = <<Len(heap) + 1, need,
                                           IF need > 2 * h[3] THEN need
                                           ELSE 2 * h[3]>>,
                               ![x].pc = "copy"]
  /\ UNCHANGED <<seqVars, l, smtplog>>

\* append: copy one byte of the record behind the bytes the header counts
CopyByte(x) ==
  /\ g[x].pc = "copy"
  /\ heap' = [heap EXCEPT ![g[x].new[1]] =
                ArrayStore(@, g[x].hdr[2] + g[x].k + 1,
                           SubSeq(g[x].rec, g[x].k + 1, g[x].k + 1))]
  /\ g' = [g EXCEPT ![x].k = IF g[x].k + 1 = Len(g[x].rec) THEN 0 ELSE g[x].k + 1,
                    ![x].pc = IF g[x].k + 1 = Len(g[x].rec) THEN "store"
                              ELSE "copy"]
  /\ UNCHANGED <<seqVars, l, smtplog>>

\* w.smtplog = ...: store one word of the new header
StoreWord(x) ==
  /\ g[x].pc = "store"
  /\ smtplog' = [smtplog EXCEPT ![g[x].k + 1] = g[x].new[g[x].k + 1]]
  /\ g' = [g EXCEPT ![x].k = IF g[x].k = 2 THEN 0 ELSE g[x].k + 1,
                    ![x].pc = IF g[x].k = 2 THEN "done" ELSE "store"]
  /\ UNCHANGED <<seqVars, l, heap>>

NextLog ==
  \E x \in Goroutines :
    \/ ConnCall(x) \/ SetFlag(x) \/ TestFlag(x)
    \/ LoadWord(x) \/ Grow(x) \/ CopyByte(x) \/ StoreWord(x)

SpecLog == InitLog /\ [][NextLog]_vars

(***************************************************************************)
(* Properties.                                                             *)
(***************************************************************************)
\* the k-th call that reached the connection under the logProxy
AuthWrite(k) == l.Conn[k].dir = "W" /\ HasPrefix(l.Conn[k].b, "AUTH")
TerminalRead(k) ==
  /\ l.Conn[k].dir = "R"
  /\ HasPrefix(l.Conn[k].b, "235") \/ HasPrefix(l.Conn[k].b, "535")
\* the record the logger appended for the k-th call (the first record is
\* the "Connected to" line)
Logged(k) == l.w[k + 1]

\* C1: from a Write that begins with "AUTH", that Write and every following
\* Write and Read are logged as the placeholder, up to but not including
\* the first Read that begins with "235" or "535", which is logged with its
\* literal text.
C1_AuthWindowRedacted ==
  \A s \in 1..Len(l.Conn) :
    AuthWrite(s) =>
      \A k \in s..Len(l.Conn) :
        (\A j \in s..(k - 1) : ~TerminalRead(j)) =>
          IF TerminalRead(k) THEN Logged(k) = "S: " \o l.Conn[k].b
          ELSE Logged(k) = Placeholder

\* C1 witness: AUTH written, a challenge read, then the terminal 235 read
C1_Witness ==
  \E s \in 1..Len(l.Conn) : \E k1 \in (s + 1)..Len(l.Conn) :
    \E k2 \in (k1 + 1)..Len(l.Conn) :
      /\ AuthWrite(s)
      /\ l.Conn[k1].dir = "R" /\ HasPrefix(l.Conn[k1].b, "334")
      /\ \A j \in s..(k2 - 1) : ~TerminalRead(j)
      /\ Logged(s) = Placeholder /\ Logged(k1) = Placeholder
      /\ Logged(k2) = "S: 235 OK\r\n"

\* C2 (as claimed): when the server's last answer in Auth carries a code
\* other than 334 or 235, Auth returns the error carrying that code and
\* message, whatever Next does.
C2_OtherCodeIsAuthError ==
  (authRet.returned /\ code \notin {0, 334, 235})
     => authRet.err = ProtoErr(code, msg64)

\* both a plain-style and a CRAM-MD5 mechanism were supplied
BothSupplied == {aplain, acram} = {"plainAuth", "cramAuth"}

\* C3 (as claimed): with both mechanisms supplied, Auth is given the
\* CRAM-MD5 mechanism when the mechanism list contains "CRAM-MD5", in
\* either argument order, and the other mechanism otherwise.
C3_CramInEitherPosition ==
  (Len(calls) > 0 /\ BothSupplied) =>
     calls[1].m = IF stringInArray("CRAM-MD5", auth) THEN "cramAuth"
                  ELSE "plainAuth"

\* C3 (amended): the choice is by position: Auth is given the second
\* mechanism argument when the mechanism list contains "CRAM-MD5" and the
\* first one otherwise.
C3_SelectedByPosition ==
  Len(calls) > 0 =>
     /\ calls[1].m = a
     /\ a = IF stringInArray("CRAM-MD5", auth) THEN acram ELSE aplain

\* C3 witness: both supplied, CRAM-MD5 advertised, Auth ran with acram
C3_Witness ==
  /\ BothSupplied /\ acram = "cramAuth"
  /\ stringInArray("CRAM-MD5", auth)
  /\ Len(calls) > 0 /\ calls[1].m = "cramAuth"

\* wire[k] is the command line cmdline
IsCmd(k, cmdline) == wire[k].dir = "C" /\ wire[k].text = cmdline
\* wire[k] is a command that begins with prefix
IsCmdPrefix(k, prefix) == wire[k].dir = "C" /\ HasPrefix(wire[k].text, prefix)
\* wire[k] is the response to the command or body at k - 1
IsReply(k) == k > 1 /\ wire[k].dir = "S" /\ wire[k - 1].dir \in {"C", "D"}

\* a greeting was accepted: NewClient returned a Client
Greeted ==
  \E k \in 2..Len(wire) :
    /\ IsCmd(k - 1, "EHLO localhost") \/ IsCmd(k - 1, "HELO localhost")
    /\ wire[k].dir = "S" /\ wire[k].code = 250

\* the body was sent and the server answered it with 250
BodyAccepted ==
  \E k \in 2..Len(wire) :
    wire[k - 1].dir = "D" /\ wire[k].dir = "S" /\ wire[k].code = 250

\* s is a prefix of t
IsPrefix(s, t) == Len(s) <= Len(t) /\ SubSeq(t, 1, Len(s)) = s

BodyRejected ==
  \E k \in 2..Len(wire) :
    wire[k - 1].dir = "D" /\ wire[k].dir = "S" /\ wire[k].code # 250

\* a QUIT command follows the body
QuitAfterBody ==
  \E k \in 1..Len(wire) : \E j \in (k + 1)..Len(wire) :
    wire[k].dir = "D" /\ IsCmd(j, "QUIT")

\* C5 (as claimed): when the body is answered with a status other than
\* 250, Close returns an error, QUIT is still sent, and the orchestrator
\* returns the finalization error.
C5_QuitAfterFailedClose ==
  (ret.returned /\ BodyRejected) =>
     /\ closeErr # NoErr
     /\ QuitAfterBody
     /\ ret.err = closeErr

\* C5 (amended): when the body is answered with a status other than 250,
\* Close returns the error carrying that status and the orchestrator
\* returns at once a nil transcript and that error; no QUIT is sent.
C5_ReturnOnFailedClose ==
  BodyRejected =>
     /\ closeErr = ProtoErr(wire[Len(wire)].code, wire[Len(wire)].text)
     /\ wire[Len(wire) - 1].dir = "D"
     /\ ~QuitAfterBody
     /\ ret.returned /\ ret.nil /\ ret.log = <<>> /\ ret.err = closeErr
     /\ pc = "Done"

\* C5 witness: the body was answered 554 and the orchestrator returned
C5_Witness ==
  /\ BodyRejected /\ ret.returned
  /\ closeErr = ProtoErr(554, "Error")
  /\ wire[Len(wire)].code = 554

\* the command at k was answered with a status of the family 25x
Accepted25x(k) ==
  k < Len(wire) /\ wire[k + 1].dir = "S" /\ wire[k + 1].code \in 250..259

\* C6: once a RCPT command is not accepted, no further RCPT and no DATA is
\* sent; DATA is sent only after MAIL was accepted and one RCPT per
\* recipient was accepted.
C6_RcptRejectionHalts ==
  /\ \A k \in 1..Len(wire) :
       (IsCmdPrefix(k, "RCPT TO:") /\ ~Accepted25x(k)) =>
          \A j \in (k + 1)..Len(wire) :
             ~IsCmdPrefix(j, "RCPT TO:") /\ ~IsCmd(j, "DATA")
  /\ \A d \in 1..Len(wire) :
       IsCmd(d, "DATA") =>
          /\ \E k \in 1..(d - 1) :
               IsCmdPrefix(k, "MAIL FROM:") /\ wire[k + 1].code = 250
          /\ Cardinality({k \in 1..(d - 1) :
               IsCmdPrefix(k, "RCPT TO:") /\ Accepted25x(k)}) = Len(to)

\* C6 witness: two recipients, the first is rejected with 550, the flow
\* has ended
C6_Witness ==
  /\ Len(to) = 2 /\ pc = "Done"
  /\ Len(wire) > 1
  /\ IsCmdPrefix(Len(wire) - 1, "RCPT TO:")
  /\ wire[Len(wire)].code = 550
  /\ Cardinality({k \in 1..Len(wire) : IsCmdPrefix(k, "RCPT TO:")}) = 1

\* the greetings are over
AfterGreetings ==
  pc \notin {"Dial", "Open", "Ehlo", "Helo", "StartTLS", "EhloTLS"}
NoAuthExtension == ext.nil \/ "AUTH" \notin DOMAIN ext.m

\* C7: when the extension map has no "AUTH" entry after the last
\* greeting, no AUTH command is written and the mechanism is never
\* called, and the auth step goes on to MAIL with nothing sent.
C7_NoAuthWithoutExtension ==
  /\ [](AfterGreetings /\ NoAuthExtension =>
          /\ calls = <<>>
          /\ \A k \in 1..Len(wire) : ~IsCmdPrefix(k, "AUTH"))
  /\ [][(pc = "Auth" /\ NoAuthExtension) =>
          (pc' = "Mail" /\ UNCHANGED <<l, wire, calls, closed>>)]_vars

\* C7 witness: mechanisms supplied, no AUTH extension, MAIL was sent
C7_Witness ==
  /\ aplain # NilAuth /\ acram # NilAuth
  /\ AfterGreetings /\ NoAuthExtension
  /\ \E k \in 1..Len(wire) : IsCmdPrefix(k, "MAIL FROM:")
  /\ calls = <<>>

\* C8 (as claimed): when Next fails, "*" is sent, the connection is
\* closed whatever happens to "*" and QUIT, and Auth returns Next's error.
C8_NextErrorCloses ==
  (authRet.returned /\ Len(calls) > 1 /\ authRet.err = MechErr("Next")) =>
     /\ \E k \in 1..Len(l.Conn) :
          /\ l.Conn[k].dir = "W"
          /\ l.Conn[k].b \in {"*\r\n", "", TLSRecord("*\r\n")}
     /\ closed
     /\ ret.err = MechErr("Next")

\* C9 (as claimed): when Start fails, no AUTH command is sent, the
\* connection is closed whatever the server does, and Auth returns
\* Start's error.
C9_StartErrorCloses ==
  (authRet.returned /\ authRet.err = MechErr("Start")) =>
     /\ \A k \in 1..Len(wire) : ~IsCmdPrefix(k, "AUTH")
     /\ closed
     /\ ret.err = MechErr("Start")

\* the QUIT command was sent and answered with 221
QuitAcked ==
  \E k \in 1..(Len(wire) - 1) :
    IsCmd(k, "QUIT") /\ wire[k + 1].dir = "S" /\ wire[k + 1].code = 221

\* the opening status was accepted (otherwise NewClient closes the
\* transport itself)
Opened == Len(wire) > 0 /\ wire[1].dir = "S" /\ wire[1].code = 220

\* C10: Quit closes the transport exactly when QUIT was sent and answered
\* 221; when the QUIT command fails the orchestrator's final Quit returns
\* that error and the transport stays open.
C10_QuitClosesOnlyOn221 ==
  /\ Opened => (closed <=> QuitAcked)
  /\ (ret.returned /\ ~ret.nil /\ ~QuitAcked) =>
        /\ ~closed
        /\ ret.err # NoErr
        /\ ret.err.kind = "proto" =>
             /\ IsCmd(Len(wire) - 1, "QUIT")
             /\ ret.err = ProtoErr(wire[Len(wire)].code, wire[Len(wire)].text)

\* C10 witness: the final QUIT was answered 500 and the transport is open
C10_Witness ==
  /\ ret.returned /\ ~ret.nil /\ ~closed
  /\ Len(wire) > 1 /\ IsCmd(Len(wire) - 1, "QUIT")
  /\ ret.err = ProtoErr(500, "Error")

\* both calls have returned
BothDone == g["R"].pc = "done" /\ g["W"].pc = "done"

\* C11 (as claimed): after a logProxy.Read and a logProxy.Write that ran
\* concurrently, the transcript is the earlier content followed by the two
\* records, each whole, in one order or the other.
C11_BothRecordsKept ==
  BothDone =>
    Transcript \in {Earlier \o g["R"].rec \o g["W"].rec,
                    Earlier \o g["W"].rec \o g["R"].rec}

\* the accepted greetings on the wire, by the position of their command
Greetings ==
  {k \in 1..(Len(wire) - 1) :
     /\ IsCmd(k, "EHLO localhost") \/ IsCmd(k, "HELO localhost")
     /\ wire[k + 1].dir = "S" /\ wire[k + 1].code = 250}
LastGreeting == CHOOSE k \in Greetings : \A j \in Greetings : j <= k

\* the mechanisms the greeting at k advertised: the parameter of its "AUTH"
\* line split at spaces, none for HELO or without an "AUTH" line
Advertised(k) ==
  IF IsCmd(k, "HELO localhost") THEN <<>>
  ELSE LET m == ParseExt(wire[k + 1].text) IN
       IF "AUTH" \in DOMAIN m THEN Split(m["AUTH"], " ") ELSE <<>>

\* C12 (as claimed): after every accepted greeting the mechanism list is
\* what that greeting advertised, empty when it advertised no "AUTH" line
\* or was a HELO; a list of an earlier greeting does not survive.
C12_MechanismsOfLastGreeting ==
  Greetings # {} => auth = Advertised(LastGreeting)

\* the RCPT command at k was answered and Client.Rcpt returned the
\* protocol error of that answer, which the orchestrator handed back
RcptFailed(k) ==
  /\ k + 1 = Len(wire) /\ pc = "Done"
  /\ ret.returned /\ ret.err = ProtoErr(wire[k + 1].code, wire[k + 1].text)

\* C13 (as claimed): Rcpt succeeds exactly when the status of the answer
\* is in 200..299 and returns a protocol error for any other status.
C13_RcptAccepts2xx ==
  \A k \in 1..(Len(wire) - 1) :
    (IsCmdPrefix(k, "RCPT TO:") /\ wire[k + 1].dir = "S") =>
       (RcptFailed(k) <=> wire[k + 1].code \notin 200..299)

\* C13 (amended): Rcpt succeeds exactly when the status of the answer is
\* in 250..259 and returns the protocol error carrying the status and the
\* text of the answer for any other status, 200 included.
C13_RcptAccepts25x ==
  \A k \in 1..(Len(wire) - 1) :
    (IsCmdPrefix(k, "RCPT TO:") /\ wire[k + 1].dir = "S") =>
       (RcptFailed(k) <=> wire[k + 1].code \notin 250..259)

\* C13 witness: one RCPT was accepted with 251 and the next one was
\* answered 200 and failed
C13_Witness ==
  \E k \in 1..(Len(wire) - 1) : \E j \in 1..(k - 1) :
    /\ IsCmdPrefix(j, "RCPT TO:") /\ wire[j + 1].code = 251
    /\ IsCmdPrefix(k, "RCPT TO:") /\ wire[k + 1].code = 200
    /\ RcptFailed(k)

\* the greeting at k was an EHLO whose answer has a line, after the first,
\* with the keyword kw
HasLine(k, kw) ==
  /\ IsCmd(k, "EHLO localhost")
  /\ LET lines == Split(wire[k + 1].text, "\n") IN
     \E j \in 2..Len(lines) : SplitN2(lines[j], " ")[1] = kw

\* C14: every MAIL command is "MAIL FROM:<addr> BODY=8BITMIME" when the
\* extension map holds the key "8BITMIME", that is when the last accepted
\* greeting was an EHLO that advertised it, and "MAIL FROM:<addr>" when
\* the key is absent or the map was cleared by a HELO.
C14_BodyParamIffAdvertised ==
  \A k \in 1..Len(wire) :
    IsCmdPrefix(k, "MAIL FROM:") =>
      /\ (~ext.nil /\ "8BITMIME" \in DOMAIN ext.m) <=>
            HasLine(LastGreeting, "8BITMIME")
      /\ wire[k].text =
            IF ~ext.nil /\ "8BITMIME" \in DOMAIN ext.m
            THEN "MAIL FROM:<" \o From \o "> BODY=8BITMIME"
            ELSE "MAIL FROM:<" \o From \o ">"

\* C14 witness: the EHLO after STARTTLS advertised 8BITMIME and MAIL was
\* sent with the parameter
C14_Witness ==
  /\ tlsWrapped /\ ~ext.nil /\ "8BITMIME" \in DOMAIN ext.m
  /\ \E k \in 1..Len(wire) : IsCmd(k, "MAIL FROM:<a@b> BODY=8BITMIME")

\* a MAIL command without the parameter was sent after a HELO
C14_HeloCase ==
  /\ ext.nil
  /\ \E k \in 1..Len(wire) : IsCmd(k, "MAIL FROM:<a@b>")

\* keywords a caller asks Extension for
Queries == {"AUTH", "auth", "STARTTLS", "8bitmime"}

\* the accepted EHLO greetings
Ehlos == {k \in Greetings : IsCmd(k, "EHLO localhost")}
LastEhlo == CHOOSE k \in Ehlos : \A j \in Ehlos : j <= k

\* the lines of the answer at k + 1 whose keyword is q but for letter case
Matching(k, q) ==
  LET lines == Split(wire[k + 1].text, "\n") IN
  {SplitN2(lines[j], " ") : j \in {n \in 2..Len(lines) :
      ToUpper(SplitN2(lines[n], " ")[1]) = ToUpper(q)}}

\* C15 (as claimed): Extension(q) reports present, with its parameter,
\* exactly when the last accepted EHLO advertised a keyword equal to q but
\* for letter case, in whatever case the server wrote it, and absent when
\* no EHLO was accepted.
C15_ExtensionIgnoresCase ==
  \A q \in Queries :
    IF Ehlos = {} THEN ~Extension(ext, q).ok
    ELSE /\ Extension(ext, q).ok <=> Matching(LastEhlo, q) # {}
         /\ \A args \in Matching(LastEhlo, q) :
              Extension(ext, q).param = IF Len(args) > 1 THEN args[2] ELSE ""

\* every command, continuation line and body on the wire directly follows
\* a response that was read
Alternates ==
  \A k \in 2..Len(wire) : wire[k].dir \in {"C", "D"} => wire[k - 1].dir = "S"

\* a call on the connection that failed (no byte transferred) among the
\* calls this step added is followed by no further Write
StopsOnTransportError ==
  \A k \in (Len(l.Conn) + 1)..Len(l'.Conn) :
    l'.Conn[k].b = "" =>
      \A j \in (k + 1)..Len(l'.Conn) : l'.Conn[j].dir # "W"

\* C16 (as claimed): no command, continuation line or body is sent before
\* the response to the previous command has been read, and in Auth, its
\* abort path included, nothing more is sent after a transport error.
C16_StrictAlternation ==
  /\ []Alternates
  /\ [][(pc \in {"Auth", "AuthLoop"}) => (StopsOnTransportError)]_vars

\* the steps that run a greeting
GreetingSteps == {"Ehlo", "Helo", "EhloTLS"}

\* C17: only a greeting (ehlo, helo, the ehlo inside StartTLS) writes the
\* extension map or the mechanism list; Verify, Auth, Mail, Rcpt, Data,
\* the body's Close, Reset and Quit leave both as they were, whatever the
\* server answers.
C17_OnlyGreetingsWrite ==
  [][(pc \notin GreetingSteps) => (UNCHANGED <<ext, auth>>)]_vars

\* C17 witness: with a non-empty extension map and mechanism list, RSET
\* was sent and answered
C17_Witness ==
  /\ ~ext.nil /\ "AUTH" \in DOMAIN ext.m /\ auth # <<>>
  /\ pc = "Done"
  /\ Len(wire) > 1 /\ IsCmd(Len(wire) - 1, "RSET") /\ wire[Len(wire)].dir = "S"

\* VRFY was sent and answered with a non-empty extension map
C17_VerifyCase ==
  /\ ~ext.nil /\ ext.m # EmptyMap
  /\ Len(wire) > 1 /\ IsCmdPrefix(Len(wire) - 1, "VRFY ")
  /\ wire[Len(wire)].dir = "S"

\* Client.Auth has returned after the server answered its last command
\* (accepted, rejected with some status, or aborted with "*")
AuthAnswered == authRet.returned /\ code # 0

\* the k-th call on the connection is the MAIL command or comes after it
InTransaction(k) ==
  \E j \in 1..k :
    l.Conn[j].dir = "W" /\ HasPrefix(l.Conn[j].b, "MAIL FROM:")

\* C18 (as claimed): the flag is false once Client.Auth has returned,
\* whatever status the server gave, and throughout the mail transaction,
\* so MAIL, RCPT, DATA, the body, QUIT and their responses are logged in
\* full, also when the body begins with "AUTH".
C18_FlagOnlyDuringAuth ==
  /\ AuthAnswered => ~l.authInProgress
  /\ \A k \in 1..Len(l.Conn) :
       InTransaction(k) => (~l.authInProgress /\ Logged(k) # Placeholder)

\* NewClient ran (the logger exists) and returned an error: the opening
\* status was not 220, or no greeting was accepted
NewClientFailed == ret.returned /\ Len(l.w) > 0 /\ ~Greeted

\* C19 (as claimed): whenever NewClient returns an error the transport
\* has been closed and no Client is handed out, both when the opening
\* status is not 220 and when EHLO and HELO both fail.
C19_FailedNewClientCloses ==
  NewClientFailed => (closed /\ ret.nil /\ ret.err # NoErr /\ pc = "Done")

\* wire[k] was exchanged after STARTTLS was accepted
AfterUpgrade(k) ==
  \E j \in 1..(k - 2) :
    IsCmd(j, "STARTTLS") /\ wire[j + 1].dir = "S" /\ wire[j + 1].code = 220

\* the record of wire[k] as its direction-tagged plaintext
PlainRecord(k) ==
  IF wire[k].dir = "S"
  THEN "S: " \o RespBytes(wire[k].code, Split(wire[k].text, "\n"))
  ELSE IF wire[k].dir = "C" THEN "C: " \o wire[k].text \o CRLF
  ELSE "C: " \o wire[k].text

\* the transcript records appended after the STARTTLS exchange
RecordsAfterUpgrade ==
  {l.w[r] : r \in {n \in 1..Len(l.w) :
      \E u \in 1..(n - 2) : l.w[u] = "C: STARTTLS\r\n"}}

\* C20 (as claimed): after STARTTLS was accepted every command sent and
\* response received is in the transcript as its direction-tagged
\* plaintext line (or, inside an AUTH window, as the placeholder), and an
\* AUTH command sent after the upgrade sets the flag and is recorded as
\* the placeholder.
C20_PlaintextAfterUpgrade ==
  \A k \in 1..Len(wire) :
    AfterUpgrade(k) =>
      /\ PlainRecord(k) \in RecordsAfterUpgrade
            \/ Placeholder \in RecordsAfterUpgrade
      /\ IsCmdPrefix(k, "AUTH ") =>
            /\ Placeholder \in RecordsAfterUpgrade
            /\ (k = Len(wire) \/ wire[Len(wire)].code = 334)
                  => l.authInProgress

====
